---- MODULE Spec2Model ----
(***************************************************************************)
(* A model of src/src/github.py: the XML-to-object decoder (_parse,        *)
(* _parseArray, BaseResponse.__init__), the type registry _types and the   *)
(* endpoint operations built on BaseEndpoint._fetch / _parsed.             *)
(*                                                                         *)
(* Python strings are sequences of one-character strings, so that          *)
(* str.replace, int() and the comparison with 'true' are computed          *)
(* character by character.  None is the one-element sequence <<"None">>,   *)
(* which no string of characters equals.                                   *)
(***************************************************************************)
EXTENDS Integers, Sequences, FiniteSets, TLC

VARIABLES
    _types,   \* the module-level type registry: kind name -> callable
    pc,       \* position of the one thread of control
    op,       \* the endpoint operation in progress or last completed
    olduser,  \* IssuesEndpoint.list's local variable
    fetched,  \* number of times the current call invoked self.fetcher
    doc,      \* documentElement of the parsed response (or NoDoc)
    rv,       \* what the last call returned or raised (or NoResult)
    before    \* the registry as it was when the current call was entered

vars == <<_types, pc, op, olduser, fetched, doc, rv, before>>

-----------------------------------------------------------------------------
(* Strings the model uses. *)

None == <<"None">>

s_string   == <<"s","t","r","i","n","g">>
s_integer  == <<"i","n","t","e","g","e","r">>
s_float    == <<"f","l","o","a","t">>
s_datetime == <<"d","a","t","e","t","i","m","e">>
s_boolean  == <<"b","o","o","l","e","a","n">>
s_array    == <<"a","r","r","a","y">>
s_user     == <<"u","s","e","r">>
s_plan     == <<"p","l","a","n">>
s_repository == <<"r","e","p","o","s","i","t","o","r","y">>
s_public_key == <<"p","u","b","l","i","c","-","k","e","y">>
s_commit   == <<"c","o","m","m","i","t">>
s_parent   == <<"p","a","r","e","n","t">>
s_author   == <<"a","u","t","h","o","r">>
s_committer == <<"c","o","m","m","i","t","t","e","r">>
s_issue    == <<"i","s","s","u","e">>
s_type     == <<"t","y","p","e">>
s_true     == <<"t","r","u","e">>
s_True     == <<"T","r","u","e">>
s_42       == <<"4","2">>
s_neg7     == <<" ","-","7">>
s_4p5      == <<"4",".","5">>
s_zz       == <<"z","z">>
s_x        == <<"x">>
s_empty    == <<>>

-----------------------------------------------------------------------------
(* DOM nodes as xml.dom.minidom builds them.  Only the members the program *)
(* reads are kept: nodeType, localName, the value of the "type" attribute  *)
(* (None when the element has none), data and childNodes.                  *)

ELEMENT_NODE == 1
TEXT_NODE == 3

Text(d) ==
    [nodeType |-> TEXT_NODE, localName |-> None, attrType |-> None,
     data |-> d, childNodes |-> <<>>]

Element(tag, attr, kids) ==
    [nodeType |-> ELEMENT_NODE, localName |-> tag, attrType |-> attr,
     data |-> None, childNodes |-> kids]

HasFirstChild(n) == Len(n.childNodes) > 0

\* el.toxml(): the element's serialized form
RECURSIVE toxml(_)
RECURSIVE toxmlAll(_)
toxmlAll(kids) ==
    IF kids = <<>> THEN <<>> ELSE toxml(Head(kids)) \o toxmlAll(Tail(kids))

toxml(n) ==
    IF n.nodeType = TEXT_NODE THEN n.data
    ELSE LET open == <<"<">> \o n.localName \o
                     (IF n.attrType = None THEN <<>>
                      ELSE <<" ">> \o s_type \o <<"=", "\"">> \o n.attrType \o <<"\"">>)
         IN  IF n.childNodes = <<>> THEN open \o <<"/", ">">>
             ELSE open \o <<">">> \o toxmlAll(n.childNodes)
                       \o <<"<", "/">> \o n.localName \o <<">">>

-----------------------------------------------------------------------------
(* Python values and raised exceptions.  Each variant has its own field    *)
(* names, so two values are equal only when they are the same variant.     *)

PyStr(s)      == [str |-> s]
PyInt(n)      == [int |-> n]
PyFloat(m, e) == [float |-> <<m, e>>]      \* the decimal m * 10^e
PyBool(b)     == [bool |-> b]
PyList(s)     == [list |-> s]
PyObj(cls, d) == [cls |-> cls, dict |-> d]
PyDict(d)     == [mapping |-> d]

AttributeError     == [exc |-> "AttributeError"]
ValueError         == [exc |-> "ValueError"]
KeyError(k)        == [exc |-> "KeyError", key |-> k]
\* raise Exception("Can't parse %s, known: %s" % (el.toxml(), repr(_types.keys())))
CantParse(el, types) == [exc |-> "Exception", xml |-> toxml(el), known |-> DOMAIN types]
IOError            == [exc |-> "IOError"]
ExpatError         == [exc |-> "ExpatError"]

IsExc(v) == "exc" \in DOMAIN v

\* x.firstChild.data: firstChild is None on a childless node, and an Element
\* has no attribute data
FirstChildData(x) ==
    IF ~HasFirstChild(x) THEN AttributeError
    ELSE IF x.childNodes[1].nodeType = TEXT_NODE THEN PyStr(x.childNodes[1].data)
    ELSE AttributeError

-----------------------------------------------------------------------------
(* int() and float() of a string. *)

DigitChars == <<"0","1","2","3","4","5","6","7","8","9">>
IsDigit(c) == \E i \in 1..Len(DigitChars) : DigitChars[i] = c
DigitVal(c) == (CHOOSE i \in 1..Len(DigitChars) : DigitChars[i] = c) - 1
IsSpace(c) == c \in {" ", "\t", "\n", "\r"}

RECURSIVE Strip(_)
Strip(s) ==
    IF s = <<>> THEN s
    ELSE IF IsSpace(s[1]) THEN Strip(Tail(s))
    ELSE IF IsSpace(s[Len(s)]) THEN Strip(SubSeq(s, 1, Len(s) - 1))
    ELSE s

AllDigits(s) == s # <<>> /\ \A i \in 1..Len(s) : IsDigit(s[i])

RECURSIVE Digits(_)
Digits(s) == IF s = <<>> THEN 0 ELSE 10 * Digits(SubSeq(s, 1, Len(s) - 1)) + DigitVal(s[Len(s)])

Unsigned(s) == IF s # <<>> /\ s[1] \in {"+", "-"} THEN Tail(s) ELSE s
Sign(s) == IF s # <<>> /\ s[1] = "-" THEN -1 ELSE 1

\* int(s): surrounding white space is dropped, one sign is allowed, the rest
\* must be decimal digits
int(s) ==
    LET t == Strip(s)
    IN  IF AllDigits(Unsigned(t)) THEN PyInt(Sign(t) * Digits(Unsigned(t)))
        ELSE ValueError

\* float(s) for the literals  [sign] digits [ "." digits ] ; the value is kept
\* as mantissa and decimal exponent
float(s) ==
    LET t == Unsigned(Strip(s))
        dots == {i \in 1..Len(t) : t[i] = "."}
    IN  IF dots = {} THEN
            IF AllDigits(t) THEN PyFloat(Sign(Strip(s)) * Digits(t), 0) ELSE ValueError
        ELSE LET d == CHOOSE i \in dots : TRUE
                 ip == SubSeq(t, 1, d - 1)
                 fp == SubSeq(t, d + 1, Len(t))
             IN  IF Cardinality(dots) = 1 /\ AllDigits(ip \o fp)
                    /\ (ip = <<>> \/ AllDigits(ip)) /\ (fp = <<>> \/ AllDigits(fp))
                 THEN PyFloat(Sign(Strip(s)) * Digits(ip \o fp), 0 - Len(fp))
                 ELSE ValueError

-----------------------------------------------------------------------------
(* The type registry.  A kind name is bound to a callable: one of the five *)
(* scalar lambdas, _parseArray, or a BaseResponse subclass.                *)

ScalarTypes ==
    {<<s_string, "lambda_string">>, <<s_integer, "lambda_integer">>,
     <<s_float, "lambda_float">>, <<s_datetime, "lambda_datetime">>,
     <<s_boolean, "lambda_boolean">>}

\* every global with a 'parses' attribute, as <<parses, name>>
ParsesGlobals ==
    {<<s_array, "_parseArray">>, <<s_user, "User">>, <<s_plan, "Plan">>,
     <<s_repository, "Repository">>, <<s_public_key, "PublicKey">>,
     <<s_commit, "Commit">>, <<s_parent, "Parent">>, <<s_author, "Author">>,
     <<s_committer, "Committer">>, <<s_issue, "Issue">>}

Registry(pairs) ==
    [k \in {p[1] : p \in pairs} |-> (CHOOSE p \in pairs : p[1] = k)[2]]

\* _types after the module has been loaded
LoadedTypes == Registry(ScalarTypes \cup ParsesGlobals)

\* del _types[k] left out
Del_noop(types, k) == types

\* del _types[k]
Del(types, k) == [j \in DOMAIN types \ {k} |-> types[j]]

\* _types[k] = v
Put(types, k, v) == [j \in DOMAIN types \cup {k} |-> IF j = k THEN v ELSE types[j]]

-----------------------------------------------------------------------------
(* The decoder. *)

RECURSIVE _parse(_, _)

\* the loop condition without its test of ch.firstChild
HasContent_noFirstChild(ch) == ch.nodeType # TEXT_NODE

\* the loop condition of _parseArray and BaseResponse.__init__:
\* ch.nodeType != xml.dom.Node.TEXT_NODE and ch.firstChild
HasContent(ch) == ch.nodeType # TEXT_NODE /\ HasFirstChild(ch)

\* the children the two loops decode, in document order
Decoded(el) == SelectSeq(el.childNodes, HasContent)

\* the values _parse gives for kids, one by one
ParseEach(kids, types) == [i \in 1..Len(kids) |-> _parse(kids[i], types)]

Raising(results) == {i \in 1..Len(results) : IsExc(results[i])}

Min(S) == CHOOSE i \in S : \A j \in S : i <= j
Max(S) == CHOOSE i \in S : \A j \in S : i >= j

\* _parseArray with a child that fails to decode passed over
_parseArray_skipErrors(el, types) ==
    LET results == ParseEach(Decoded(el), types)
    IN  PyList(SelectSeq(results, LAMBDA r : ~IsExc(r)))

\* _parseArray(el): rv.append(_parse(ch)) for each child with content; an
\* exception raised by _parse leaves the loop and the function
_parseArray(el, types) ==
    LET results == ParseEach(Decoded(el), types)
    IN  IF Raising(results) # {} THEN results[Min(Raising(results))]
        ELSE PyList(results)

\* the field named by the tag as it stands
FieldName_identity(name) == name

\* ch.localName.replace('-', '_')
FieldName(name) == [i \in 1..Len(name) |-> IF name[i] = "-" THEN "_" ELSE name[i]]

\* BaseResponse.__init__(self, el) for an instance of class cls:
\* self.__dict__[ln] = _parse(ch) for each child with content, a later
\* assignment to the same ln replacing an earlier one
BaseResponse(cls, el, types) ==
    LET kids == Decoded(el)
        results == ParseEach(kids, types)
        names == {FieldName(kids[i].localName) : i \in 1..Len(kids)}
        last(n) == Max({i \in 1..Len(kids) : FieldName(kids[i].localName) = n})
    IN  IF Raising(results) # {} THEN results[Min(Raising(results))]
        ELSE PyObj(cls, [n \in names |-> results[last(n)]])

\* 'boolean' by the truth value of the text: bool(x.firstChild.data)
lambda_boolean_truthy(x) ==
    IF IsExc(FirstChildData(x)) THEN FirstChildData(x)
    ELSE PyBool(FirstChildData(x).str # <<>>)

\* 'boolean': lambda x: x.firstChild.data == 'true'
lambda_boolean(x) ==
    IF IsExc(FirstChildData(x)) THEN FirstChildData(x)
    ELSE PyBool(FirstChildData(x).str = s_true)

\* 'integer': lambda x: int(x.firstChild.data)
lambda_integer(x) ==
    IF IsExc(FirstChildData(x)) THEN FirstChildData(x)
    ELSE int(FirstChildData(x).str)

\* 'float': lambda x: float(x.firstChild.data)
lambda_float(x) ==
    IF IsExc(FirstChildData(x)) THEN FirstChildData(x)
    ELSE float(FirstChildData(x).str)

\* 'string' and 'datetime': lambda x: x.firstChild.data
lambda_string(x) == FirstChildData(x)

\* _types[type](el): the call of the registered callable
Call(callable, el, types) ==
    CASE callable = "lambda_string"   -> lambda_string(el)
      [] callable = "lambda_datetime" -> lambda_string(el)
      [] callable = "lambda_integer"  -> lambda_integer(el)
      [] callable = "lambda_float"    -> lambda_float(el)
      [] callable = "lambda_boolean"  -> lambda_boolean(el)
      [] callable = "_parseArray"     -> _parseArray(el, types)
      [] OTHER                        -> BaseResponse(callable, el, types)

\* lines 68-73: the scan of the children of a container for the first one
\* whose localName is 'type'; None when there is none
ChildType(el) ==
    LET tagged == {i \in 1..Len(el.childNodes) : el.childNodes[i].localName = s_type}
    IN  IF tagged = {} THEN PyStr(None)
        ELSE FirstChildData(el.childNodes[Min(tagged)])

\* the kind of el with no default of 'string' (type = None at line 61)
TypeOf_noDefault(el, types) ==
    IF el.attrType # None THEN PyStr(el.attrType)
    ELSE IF el.localName \in DOMAIN types THEN PyStr(el.localName)
    ELSE IF Len(el.childNodes) > 1 THEN ChildType(el)
    ELSE PyStr(None)

\* the kind of el with the tag name tried before the type attribute
TypeOf_tagFirst(el, types) ==
    IF el.localName \in DOMAIN types THEN PyStr(el.localName)
    ELSE IF el.attrType # None THEN PyStr(el.attrType)
    ELSE IF Len(el.childNodes) > 1 THEN ChildType(el)
    ELSE PyStr(s_string)

\* lines 61-73: the kind of el, as PyStr(kind), PyStr(None), or the
\* AttributeError raised while reading the 'type' child
TypeOf(el, types) ==
    IF el.attrType # None THEN PyStr(el.attrType)
    ELSE IF el.localName \in DOMAIN types THEN PyStr(el.localName)
    ELSE IF Len(el.childNodes) > 1 THEN ChildType(el)
    ELSE PyStr(s_string)

\* lines 75-79
_parse(el, types) ==
    LET type == TypeOf(el, types)
    IN  IF IsExc(type) THEN type
        ELSE IF type.str = None \/ type.str = s_empty THEN CantParse(el, types)
        ELSE IF type.str \notin DOMAIN types THEN KeyError(type.str)
        ELSE Call(types[type.str], el, types)

\* the callables that read only x.firstChild.data
Lambdas ==
    {"lambda_string", "lambda_integer", "lambda_float", "lambda_datetime", "lambda_boolean"}

\* the elements the decoder calls _parse on when it is given el: el itself
\* and, when el is handed to _parseArray or to a BaseResponse subclass, the
\* children with content up to the first one that raises, with theirs
RECURSIVE Reached(_, _)
Reached(el, types) ==
    LET type == TypeOf(el, types)
        kids == Decoded(el)
        results == ParseEach(kids, types)
        stop == IF Raising(results) = {} THEN Len(kids) ELSE Min(Raising(results))
    IN  IF IsExc(type) THEN {el}
        ELSE IF type.str \notin DOMAIN types THEN {el}
        ELSE IF types[type.str] \in Lambdas THEN {el}
        ELSE {el} \cup UNION {Reached(kids[i], types) : i \in 1..stop}

-----------------------------------------------------------------------------
(* RepositoryEndpoint.branches: the mapping built without the decoder. *)

\* lines 225-229: rv[c.localName] = str(c.firstChild.data) for every child
\* that is not a text node
branchMap(root) ==
    LET kids == SelectSeq(root.childNodes, LAMBDA c : c.nodeType # TEXT_NODE)
        results == [i \in 1..Len(kids) |-> FirstChildData(kids[i])]
        names == {kids[i].localName : i \in 1..Len(kids)}
        last(n) == Max({i \in 1..Len(kids) : kids[i].localName = n})
    IN  IF Raising(results) # {} THEN results[Min(Raising(results))]
        ELSE PyDict([n \in names |-> results[last(n)]])

-----------------------------------------------------------------------------
(* The responses the page fetcher may deliver. *)

MaxText == 2      \* most child nodes of an element holding text
MaxKids == 3      \* most child nodes of a container element
MaxDocKids == 1   \* most child nodes of the root of an endpoint's response

SeqsUpTo(S, n) == UNION {[1..k -> S] : k \in 0..n}

Texts == {s_true, s_True, s_42, s_neg7, s_4p5, s_zz}

\* text nodes and an empty element
Leaves == {Text(t) : t \in Texts} \cup {Element(s_x, None, <<>>)}

LeafTags == {s_x, s_user, s_integer}
LeafAttrs == {None, s_string, s_integer, s_float, s_datetime, s_boolean, s_zz, s_empty}

\* the child nodes of a container: a text node, an empty element, 'type'
\* markers, scalars with and without a type attribute, and nested containers
Kids ==
    {Text(s_zz),
     Element(s_x, None, <<>>),
     Element(s_type, None, <<>>),
     Element(s_type, None, <<Text(s_user)>>),
     Element(s_type, None, <<Text(s_array)>>),
     Element(s_type, None, <<Text(s_zz)>>),
     Element(s_public_key, None, <<Text(s_42)>>),
     Element(s_x, s_integer, <<Text(s_42)>>),
     Element(s_x, s_zz, <<Text(s_42)>>),
     Element(s_user, None, <<Text(s_zz)>>),
     Element(s_issue, None, <<Element(s_user, None, <<Text(s_zz)>>)>>),
     Element(s_x, s_array, <<Element(s_x, s_zz, <<Text(s_42)>>)>>)}

ContainerTags == {s_x, s_user}
ContainerAttrs == {None, s_array, s_user}

\* minidom's parser joins adjacent character data into one text node
Normalized(k) ==
    \A i \in 1..(Len(k) - 1) : ~(k[i].nodeType = TEXT_NODE /\ k[i + 1].nodeType = TEXT_NODE)

ChildSeqs(S, n) == {k \in SeqsUpTo(S, n) : Normalized(k)}

Elems(ntext, nkids) ==
    {Element(t, a, k) : t \in LeafTags, a \in LeafAttrs, k \in ChildSeqs(Leaves, ntext)}
    \cup
    {Element(t, a, k) : t \in ContainerTags, a \in ContainerAttrs, k \in ChildSeqs(Kids, nkids)}

\* the elements _parse is applied to
Elements == Elems(MaxText, MaxKids)

\* the root elements of the responses an endpoint call may receive
Docs == Elems(MaxDocKids, MaxDocKids)

-----------------------------------------------------------------------------
(* The endpoint operations, step by step. *)

NoDoc == [unset |-> TRUE]
NoResult == [unset |-> TRUE]

ParsedOps ==
    {"users.search", "users.show", "users.keys", "repos.forUser", "repos.search",
     "commits.forBranch", "commits.forFile"}

\* where control goes when the body of the operation returns or raises:
\* IssuesEndpoint.list runs its finally clause, the others are done
Unwind(o) == IF o = "issues.list" THEN "finally" ELSE "idle"

Init ==
    /\ _types = LoadedTypes
    /\ pc = "idle"
    /\ op = "none"
    /\ olduser = "unbound"
    /\ fetched = 0
    /\ doc = NoDoc
    /\ rv = NoResult
    /\ before = LoadedTypes

\* a call of an operation whose body is  return self._parsed(path)
Enter(o) ==
    /\ pc = "idle"
    /\ pc' = "fetch"
    /\ op' = o
    /\ fetched' = 0
    /\ doc' = NoDoc
    /\ rv' = NoResult
    /\ before' = _types
    /\ UNCHANGED <<_types, olduser>>

UserSearch == Enter("users.search")
UserShow == Enter("users.show")
UserKeys == Enter("users.keys")
RepoForUser == Enter("repos.forUser")
RepoSearch == Enter("repos.search")
RepoBranches == Enter("repos.branches")
CommitForBranch == Enter("commits.forBranch")
CommitForFile == Enter("commits.forFile")

\* IssuesEndpoint.list up to the try: olduser = _types['user']; del _types['user']
IssuesList ==
    /\ pc = "idle"
    /\ op' = "issues.list"
    /\ fetched' = 0
    /\ doc' = NoDoc
    /\ before' = _types
    /\ IF s_user \in DOMAIN _types
         THEN /\ olduser' = _types[s_user]
              /\ _types' = Del(_types, s_user)
              /\ rv' = NoResult
              /\ pc' = "fetch"
         ELSE /\ rv' = KeyError(s_user)
              /\ pc' = "idle"
              /\ UNCHANGED <<_types, olduser>>

\* _fetch asking the fetcher a second time
_fetch_twice ==
    /\ pc = "fetch"
    /\ fetched' = fetched + 2
    /\ \/ /\ rv' = IOError
          /\ doc' = NoDoc
          /\ pc' = Unwind(op)
       \/ /\ rv' = ExpatError
          /\ doc' = NoDoc
          /\ pc' = Unwind(op)
       \/ \E d \in Docs :
            /\ doc' = d
            /\ rv' = rv
            /\ pc' = IF op = "repos.branches" THEN "branches" ELSE "decode"
    /\ UNCHANGED <<_types, op, olduser, before>>

\* BaseEndpoint._fetch: one call of self.fetcher, then minidom.parseString
_fetch ==
    /\ pc = "fetch"
    /\ fetched' = fetched + 1
    /\ \/ /\ rv' = IOError                       \* the fetcher raises
          /\ doc' = NoDoc
          /\ pc' = Unwind(op)
       \/ /\ rv' = ExpatError                    \* the body is not well-formed
          /\ doc' = NoDoc
          /\ pc' = Unwind(op)
       \/ \E d \in Docs :
            /\ doc' = d
            /\ rv' = rv
            /\ pc' = IF op = "repos.branches" THEN "branches" ELSE "decode"
    /\ UNCHANGED <<_types, op, olduser, before>>

\* BaseEndpoint._parsed, line 200: return _parse(doc.documentElement)
_parsed ==
    /\ pc = "decode"
    /\ rv' = _parse(doc, _types)
    /\ pc' = Unwind(op)
    /\ UNCHANGED <<_types, op, olduser, fetched, doc, before>>

\* RepositoryEndpoint.branches, lines 225-229
branches ==
    /\ pc = "branches"
    /\ rv' = branchMap(doc)
    /\ pc' = "idle"
    /\ UNCHANGED <<_types, op, olduser, fetched, doc, before>>

\* the restore written after the try block instead of in a finally clause
IssuesFinally_noFinally ==
    /\ pc = "finally"
    /\ _types' = IF IsExc(rv) THEN _types ELSE Put(_types, s_user, olduser)
    /\ pc' = "idle"
    /\ UNCHANGED <<op, olduser, fetched, doc, rv, before>>

\* IssuesEndpoint.list, lines 254-255: finally: _types['user'] = olduser
IssuesFinally ==
    /\ pc = "finally"
    /\ _types' = Put(_types, s_user, olduser)
    /\ pc' = "idle"
    /\ UNCHANGED <<op, olduser, fetched, doc, rv, before>>

Next ==
    \/ UserSearch \/ UserShow \/ UserKeys
    \/ RepoForUser \/ RepoBranches \/ RepoSearch
    \/ CommitForBranch \/ CommitForFile
    \/ IssuesList
    \/ _fetch \/ _parsed \/ branches \/ IssuesFinally

Spec == Init /\ [][Next]_vars

\* _parse applied to any element, the registry being as loaded
InitParse ==
    /\ _types = LoadedTypes
    /\ pc = "decode"
    /\ op = "users.show"
    /\ olduser = "unbound"
    /\ fetched = 1
    /\ doc \in Elements
    /\ rv = NoResult
    /\ before = LoadedTypes

SpecParse == InitParse /\ [][_parsed]_vars

-----------------------------------------------------------------------------
(* Properties of the endpoint operations, checked under Spec. *)

InIssuesList == op = "issues.list" /\ pc \in {"fetch", "decode", "finally"}

\* an endpoint that decodes has just decoded doc with the registry _types
JustDecoded ==
    /\ doc # NoDoc
    /\ rv # NoResult
    /\ \/ op \in ParsedOps /\ pc = "idle"
       \/ op = "issues.list" /\ pc = "finally"

\* C1: once a call of IssuesEndpoint.list entered with 'user' registered is
\* over, however it ended, the registry has the kind names it had when the
\* call was entered and 'user' is bound to what it was bound to
C1_RegistryRestored ==
    (op = "issues.list" /\ pc = "idle" /\ s_user \in DOMAIN before)
        => /\ DOMAIN _types = DOMAIN before
           /\ _types[s_user] = before[s_user]

\* a call of IssuesEndpoint.list is over, its decoding having raised
C1_Witness ==
    /\ op = "issues.list"
    /\ pc = "idle"
    /\ doc # NoDoc
    /\ IsExc(rv)
    /\ s_user \in DOMAIN _types

IsUser(v) == "cls" \in DOMAIN v /\ v.cls = "User"

\* el was decoded to the value v, and in the course of it some element
\* tagged 'user' without a type attribute was decoded to a User
RECURSIVE UserAsUser(_, _)
UserAsUser(el, v) ==
    LET kids == Decoded(el)
    IN  \/ el.localName = s_user /\ el.attrType = None /\ IsUser(v)
        \/ /\ "list" \in DOMAIN v
           /\ \E i \in 1..Len(kids) : UserAsUser(kids[i], v.list[i])
        \/ /\ "cls" \in DOMAIN v
           /\ \E i \in 1..Len(kids) :
                /\ \A j \in (i + 1)..Len(kids) : kids[j].localName # kids[i].localName
                /\ UserAsUser(kids[i], v.dict[FieldName(kids[i].localName)])

\* C9: 'user' is not registered at any point of the fetch and decode of
\* IssuesEndpoint.list, so no element tagged 'user' without a type attribute
\* is decoded to a User there; at every point outside it 'user' is registered
C9_UserSuppressed ==
    /\ InIssuesList => s_user \notin DOMAIN _types
    /\ ~InIssuesList => (s_user \in DOMAIN _types /\ _types[s_user] = "User")
    /\ (op = "issues.list" /\ doc # NoDoc /\ rv # NoResult /\ pc = "finally")
         => /\ IsExc(rv) \/ ~UserAsUser(doc, rv)
            /\ \A d \in Reached(doc, _types) :
                 (d.localName = s_user /\ d.attrType = None) => ~IsUser(_parse(d, _types))

\* IssuesEndpoint.list has decoded <x type="array"><user>zz</user></x> to the
\* list of the one string 'zz'
C9_Witness ==
    /\ op = "issues.list"
    /\ pc = "finally"
    /\ doc = Element(s_x, s_array, <<Element(s_user, None, <<Text(s_zz)>>)>>)
    /\ rv = PyList(<<PyStr(s_zz)>>)

\* the value v holds an exception somewhere inside it
RECURSIVE HoldsExc(_)
HoldsExc(v) ==
    \/ IsExc(v)
    \/ "list" \in DOMAIN v /\ \E i \in 1..Len(v.list) : HoldsExc(v.list[i])
    \/ "cls" \in DOMAIN v /\ \E n \in DOMAIN v.dict : HoldsExc(v.dict[n])

\* C10: when the decoding of an element the decoder reached raises, at any
\* depth, the endpoint call raises that exception; a value is returned only
\* when every element reached decoded, and it holds no exception
C10_NoPartialResult ==
    JustDecoded =>
        /\ \A d \in Reached(doc, _types) :
             IsExc(_parse(d, _types)) => rv = _parse(d, _types)
        /\ ~IsExc(rv) => ~HoldsExc(rv)

\* UserEndpoint.show raised the KeyError of a grandchild of the root
C10_Witness ==
    /\ op = "users.show"
    /\ pc = "idle"
    /\ doc = Element(s_x, s_array,
                 <<Element(s_x, s_array, <<Element(s_x, s_zz, <<Text(s_42)>>)>>)>>)
    /\ rv = KeyError(s_zz)

-----------------------------------------------------------------------------
(* Properties of the decoder, checked under SpecParse: rv is what _parse   *)
(* gave for the element doc.                                               *)

Parsed == pc = "idle" /\ doc # NoDoc /\ rv # NoResult

s_public_key_field == <<"p","u","b","l","i","c","_","k","e","y">>

\* the child nodes of el that are elements with at least one child node
NonEmptyAt(el) ==
    {i \in 1..Len(el.childNodes) :
        el.childNodes[i].nodeType = ELEMENT_NODE /\ el.childNodes[i].childNodes # <<>>}

IsRecord(v) == "cls" \in DOMAIN v

\* the i-th smallest member of a set of numbers
Nth(S, i) == CHOOSE x \in S : Cardinality({y \in S : y < x}) = i - 1

\* doc has no type attribute, its tag is not a registered kind, and it has
\* at most one child node
Undetermined ==
    /\ doc.attrType = None
    /\ doc.localName \notin DOMAIN _types
    /\ Len(doc.childNodes) <= 1

\* C2 as stated: such an element fails with the descriptive error
C2_Original ==
    (Parsed /\ Undetermined) => (IsExc(rv) /\ rv.exc = "Exception")

\* C2, amended: an element with no type attribute, an unregistered tag and at
\* most one child node is decoded as a 'string': it gives the text of its
\* child when that is a text node, and raises an AttributeError when it has
\* no child or its child is an element; it never raises the descriptive error
C2_DefaultsToString ==
    (Parsed /\ Undetermined) =>
        IF Len(doc.childNodes) = 1 /\ doc.childNodes[1].nodeType = TEXT_NODE
        THEN rv = PyStr(doc.childNodes[1].data)
        ELSE rv = AttributeError

\* <x>true</x> decoded to the string 'true'
C2_Witness ==
    /\ Parsed
    /\ doc = Element(s_x, None, <<Text(s_true)>>)
    /\ rv = PyStr(s_true)

\* C3: a kind taken from the type attribute or from a 'type' child that is
\* not registered fails with the descriptive error, which carries the
\* element's serialized form and the known kinds
C3_UnregisteredKindDescriptive ==
    LET type == TypeOf(doc, _types)
    IN  ( /\ Parsed
          /\ doc.attrType # None \/ (doc.localName \notin DOMAIN _types /\ Len(doc.childNodes) > 1)
          /\ ~IsExc(type)
          /\ type.str # None
          /\ type.str \notin DOMAIN _types )
        => rv = [exc |-> "Exception", xml |-> toxml(doc), known |-> DOMAIN _types]

\* the kind _parse dispatches doc on is bound to the callable c
DispatchedTo(c) ==
    LET type == TypeOf(doc, _types)
    IN  /\ ~IsExc(type)
        /\ type.str \in DOMAIN _types
        /\ _types[type.str] = c

\* what the children of doc with content decode to, in document order
Entries ==
    [i \in 1..Cardinality(NonEmptyAt(doc)) |->
        _parse(doc.childNodes[Nth(NonEmptyAt(doc), i)], _types)]

\* C4: an 'array' element with N child elements with content and M empty
\* ones, text nodes among them, decodes to the sequence of the N decoded
\* values of the children with content, in document order (and raises when
\* one of them does not decode)
C4_ArrayEntries ==
    (Parsed /\ DispatchedTo("_parseArray")) =>
        IF \E i \in DOMAIN Entries : IsExc(Entries[i])
        THEN IsExc(rv)
        ELSE /\ rv = PyList(Entries)
             /\ Len(rv.list) = Cardinality(NonEmptyAt(doc))

\* an array of two children with content around an empty one decoded to the
\* two values, a PublicKey and the integer 42
C4_Witness ==
    /\ Parsed
    /\ DispatchedTo("_parseArray")
    /\ doc.childNodes = <<Element(s_public_key, None, <<Text(s_42)>>),
                          Element(s_x, None, <<>>),
                          Element(s_x, s_integer, <<Text(s_42)>>)>>
    /\ ~IsExc(rv)
    /\ Len(rv.list) = 2
    /\ IsRecord(rv.list[1]) /\ rv.list[1].cls = "PublicKey"
    /\ rv.list[2] = PyInt(42)

ClaimedScalars == {s_string, s_datetime, s_integer, s_boolean}

\* the text nodes among the children of el, joined
RECURSIVE DirectText(_)
DirectText(kids) ==
    IF kids = <<>> THEN <<>>
    ELSE (IF Head(kids).nodeType = TEXT_NODE THEN Head(kids).data ELSE <<>>)
         \o DirectText(Tail(kids))

\* C5 as stated: every element with a scalar type attribute decodes to the
\* primitive built from its text
C5_Original ==
    (Parsed /\ doc.attrType \in ClaimedScalars) =>
        /\ ~IsExc(rv)
        /\ doc.attrType \in {s_string, s_datetime} => rv = PyStr(DirectText(doc.childNodes))
        /\ doc.attrType = s_integer => "int" \in DOMAIN rv
        /\ doc.attrType = s_boolean => rv = PyBool(DirectText(doc.childNodes) = s_true)

\* the integers and decimals the texts of the model denote
IntOf(t) ==
    CASE t = s_42   -> PyInt(42)
      [] t = s_neg7 -> PyInt(-7)
      [] OTHER      -> ValueError

FloatOf(t) ==
    CASE t = s_42   -> PyFloat(42, 0)
      [] t = s_neg7 -> PyFloat(-7, 0)
      [] t = s_4p5  -> PyFloat(45, -1)
      [] OTHER      -> ValueError

\* C5, amended: an element with a type attribute naming a registered scalar
\* kind whose first child node is a text node decodes from that text node
\* alone: 'string' and 'datetime' give its text unchanged, 'integer' (and
\* 'float') the number it denotes or a ValueError when it denotes none,
\* 'boolean' true exactly when it is "true"; with no child node, or an
\* element as first child, decoding raises an AttributeError
C5_ScalarFromFirstText ==
    (Parsed /\ doc.attrType \in ClaimedScalars \cup {s_float} /\ doc.attrType \in DOMAIN _types) =>
        IF doc.childNodes = <<>> THEN rv = AttributeError
        ELSE IF doc.childNodes[1].nodeType # TEXT_NODE THEN rv = AttributeError
        ELSE LET t == doc.childNodes[1].data
             IN  /\ doc.attrType \in {s_string, s_datetime} => rv = PyStr(t)
                 /\ doc.attrType = s_integer => rv = IntOf(t)
                 /\ doc.attrType = s_float => rv = FloatOf(t)
                 /\ doc.attrType = s_boolean => rv = PyBool(t = s_true)

\* <x type="boolean">True</x> decoded to false
C5_Witness ==
    /\ Parsed
    /\ doc = Element(s_x, s_boolean, <<Text(s_True)>>)
    /\ rv = PyBool(FALSE)

\* the field a tag of the model gives, written out
FieldOf(tag) == IF tag = s_public_key THEN s_public_key_field ELSE tag

\* C6: a record element decodes to an instance of the registered class whose
\* fields are exactly the tags, hyphens turned to underscores, of its child
\* elements with content, each field holding the decoded value of the child
\* so tagged (of the last one, when several are); text nodes and empty
\* children give no field (and decoding raises when a child does not decode)
C6_RecordFields ==
    LET idx == NonEmptyAt(doc)
        val(i) == _parse(doc.childNodes[i], _types)
        field(i) == FieldOf(doc.childNodes[i].localName)
    IN  ( /\ Parsed
          /\ \E c \in {_types[k] : k \in DOMAIN _types} \ (Lambdas \cup {"_parseArray"}) :
               DispatchedTo(c) )
        => IF \E i \in idx : IsExc(val(i))
           THEN IsExc(rv)
           ELSE /\ IsRecord(rv)
                /\ DispatchedTo(rv.cls)
                /\ DOMAIN rv.dict = {field(i) : i \in idx}
                /\ \A i \in idx :
                     (\A j \in idx : j > i => field(j) # field(i)) => rv.dict[field(i)] = val(i)

\* <user>zz<x/><public-key>42</public-key></user> decoded to a User whose one
\* field is public_key
C6_Witness ==
    /\ Parsed
    /\ doc = Element(s_user, None,
                 <<Text(s_zz), Element(s_x, None, <<>>),
                   Element(s_public_key, None, <<Text(s_42)>>)>>)
    /\ IsRecord(rv)
    /\ rv.cls = "User"
    /\ DOMAIN rv.dict = {s_public_key_field}
    /\ IsRecord(rv.dict[s_public_key_field])
    /\ rv.dict[s_public_key_field].cls = "PublicKey"

\* what the callable registered for kind k gives for doc; a KeyError when k
\* is not registered
Dispatch(k) ==
    IF k \in DOMAIN _types THEN Call(_types[k], doc, _types) ELSE KeyError(k)

TypeTagged(el) == {i \in 1..Len(el.childNodes) : el.childNodes[i].localName = s_type}

\* C8: the kind is the type attribute when there is one, also when the tag is
\* a registered kind; else the tag when it is registered; else, when there is
\* more than one child node, the text of the first child tagged 'type', the
\* descriptive error being raised when no child is so tagged; the children are
\* not looked at when there is at most one child node.  (An empty type
\* attribute is taken, and gives the descriptive error; a first 'type' child
\* with no text gives an AttributeError.)
C8_KindPrecedence ==
    Parsed =>
        /\ (doc.attrType # None /\ doc.attrType # s_empty) => rv = Dispatch(doc.attrType)
        /\ doc.attrType = s_empty
              => rv = [exc |-> "Exception", xml |-> toxml(doc), known |-> DOMAIN _types]
        /\ (doc.attrType = None /\ doc.localName \in DOMAIN _types) => rv = Dispatch(doc.localName)
        /\ (doc.attrType = None /\ doc.localName \notin DOMAIN _types /\ Len(doc.childNodes) > 1) =>
              IF TypeTagged(doc) = {}
              THEN rv = [exc |-> "Exception", xml |-> toxml(doc), known |-> DOMAIN _types]
              ELSE LET first == doc.childNodes[Nth(TypeTagged(doc), 1)]
                   IN  IF first.childNodes # <<>> /\ first.childNodes[1].nodeType = TEXT_NODE
                       THEN rv = Dispatch(first.childNodes[1].data)
                       ELSE rv = AttributeError
        /\ (doc.attrType = None /\ doc.localName \notin DOMAIN _types /\ Len(doc.childNodes) <= 1) =>
              rv = Dispatch(s_string)

\* <x><type>array</type><type>user</type></x> decoded as an array, the kind
\* its first 'type' child names
C8_Witness ==
    /\ Parsed
    /\ doc = Element(s_x, None, <<Element(s_type, None, <<Text(s_array)>>),
                                  Element(s_type, None, <<Text(s_user)>>)>>)
    /\ rv = PyList(<<PyStr(s_array), PyStr(s_user)>>)

====
